---- MODULE Spec2Model ----
(***************************************************************************)
(* Real-time session layer of src/api/index.js: socket authentication,     *)
(* the process-wide onlineUsers set, per-user rooms, and the typing,       *)
(* sendFile, markAsSeen and disconnect handlers with their ChatSession     *)
(* reads and writes.                                                       *)
(*                                                                         *)
(* One action is one synchronous run of the event loop: a whole            *)
(* synchronous handler, or the part of an async handler between two        *)
(* awaits.  A database operation takes effect at the step that ends the    *)
(* await on it.                                                            *)
(***************************************************************************)
EXTENDS Integers, Sequences, FiniteSets, TLC

\* ---------------------------------------------------------------- bounds
NumUsers == 3        \* user identities 1..NumUsers
MaxSockets == 3      \* connections accepted over the server's life
MaxTasks == 2        \* async handlers in flight at once
MaxOps == 2          \* sendFile and markAsSeen handlers that reach their try block
MaxDeliveryOps == 1  \* the same, while connections come and go (SpecDelivery)

Users == 1..NumUsers
Sockets == 1..MaxSockets
TaskIds == 1..MaxTasks

\* An absent (undefined) value of a payload field or of socket.userId.
Absent == 0

FileFields == {"fileData", "fileName", "fileType"}

\* The sendFile payloads a client sends: a receiverId (or none) and the set
\* of file fields present.  All four fields present, exactly one of the four
\* absent, or all absent.
PayloadsTo(receivers) ==
    {<<r, FileFields>> : r \in receivers \cup {Absent}}
    \cup {<<r, FileFields \ {f}>> : r \in receivers, f \in FileFields}
    \cup {<<Absent, {}>>}

VARIABLES
    onlineUsers,   \* the Set of line 79
    sock,          \* per socket: lifecycle state and socket.userId
    rooms,         \* per socket: the rooms it has joined (socket.join)
    tasks,         \* async handlers in flight, one record per slot
    store,         \* the ChatSession collection, in insertion order
    clock,         \* source of new Date()
    seenOps,       \* markAsSeen handlers started so far
    saved,         \* timestamps of the messages whose save has succeeded
    emitted,       \* the events emitted by the last step
    last           \* the handler (and input) that ran in the last step

vars == <<onlineUsers, sock, rooms, tasks, store, clock, seenOps, saved,
          emitted, last>>

\* ------------------------------------------------------------- helpers

\* The sockets currently in room r: the targets of io.to(r).
Room(r) == {s \in Sockets : r \in rooms[s]}

\* The sockets currently connected to the namespace: the targets of io.emit.
Connected == {s \in Sockets : sock[s].st = "Bound"}

\* The live bound connections of user u.
LiveConnections(u) == {s \in Sockets : sock[s].st = "Bound" /\ sock[s].userId = u}

\* [a, b] without the sort.
SortPairAsGiven(a, b) == <<a, b>>

\* [a, b].sort()
SortPair(a, b) == IF a <= b THEN <<a, b>> ELSE <<b, a>>

\* ChatSession.findOne({ participants }): the index of the first stored
\* document whose participants array equals p, or 0 (null).
FindOne(p) ==
    LET hits == {i \in 1..Len(store) : store[i].participants = p}
    IN  IF hits = {} THEN 0
        ELSE CHOOSE i \in hits : \A j \in hits : i <= j

\* The seen flag a stored message gets when the handler set none.
DefaultSeen == FALSE

\* The newMessage object of lines 128-136.
NewMessage(sender, receiverId, now) ==
    [senderId |-> sender, receiverId |-> receiverId, fileData |-> "data",
     fileName |-> "name", fileType |-> "type", isFile |-> TRUE,
     timestamp |-> now]

\* The subdocument session.messages.push(newMessage) stores.
StoredMessage(m) ==
    [senderId |-> m.senderId, receiverId |-> m.receiverId,
     fileData |-> m.fileData, fileName |-> m.fileName,
     fileType |-> m.fileType, isFile |-> m.isFile,
     timestamp |-> m.timestamp, seen |-> DefaultSeen]

\* The callback without the comparison of msg.senderId: every unseen
\* message is marked.
MarkOneAnySender(msg, senderId) ==
    IF ~msg.seen
        THEN [msg EXCEPT !.seen = TRUE]
        ELSE msg

\* The callback of session.messages.map, lines 154-159.
MarkOne(msg, senderId) ==
    IF msg.senderId = senderId /\ ~msg.seen
        THEN [msg EXCEPT !.seen = TRUE]
        ELSE msg

MarkAll(msgs, senderId) == [i \in 1..Len(msgs) |-> MarkOne(msgs[i], senderId)]

NoMsg == [timestamp |-> 0]

IdleTask == [kind |-> "idle", userId |-> 0, peer |-> 0,
             pc |-> "none", doc |-> 0, v |-> 0, messages |-> <<>>,
             msg |-> NoMsg]

\* The sendFile and markAsSeen handlers that have entered their try block.
OpsStarted ==
    clock + seenOps
    + Cardinality({t \in TaskIds : tasks[t].kind = "sendFile" /\ tasks[t].pc = "find"})

\* The slot a newly started async handler takes.
FreeSlot ==
    LET free == {t \in TaskIds : tasks[t].kind = "idle"}
    IN  IF free = {} THEN 0 ELSE CHOOSE t \in free : \A u \in free : t <= u

\* The socket the next connection gets.
NextSocket ==
    LET fresh == {s \in Sockets : sock[s].st = "Connecting"}
    IN  IF fresh = {} THEN 0 ELSE CHOOSE s \in fresh : \A r \in fresh : s <= r

\* ---------------------------------------------------------------- Init

Init ==
    /\ onlineUsers = {}
    /\ sock = [s \in Sockets |-> [st |-> "Connecting", userId |-> Absent]]
    /\ rooms = [s \in Sockets |-> {}]
    /\ tasks = [t \in TaskIds |-> IdleTask]
    /\ store = <<>>
    /\ clock = 0
    /\ seenOps = 0
    /\ saved = {}
    /\ emitted = {}
    /\ last = [op |-> "init", sock |-> 0]

\* ---------------------------------------------------- connection handler

\* Bind with the snapshot taken before the identity is added.
BindSnapshotBeforeAdd(s, userId) ==
    /\ sock' = [sock EXCEPT ![s] = [st |-> "Bound", userId |-> userId]]
    /\ rooms' = [rooms EXCEPT ![s] = {userId}]
    /\ onlineUsers' = onlineUsers \cup {userId}
    /\ emitted' =
         {[name |-> "userOnline", to |-> Connected \cup {s}, userId |-> userId],
          [name |-> "onlineUsers", to |-> {s}, users |-> onlineUsers]}

\* Bind on a server that replays missed events: the events of the previous
\* step that were addressed to the user's room are delivered to the new
\* socket as well.
BindReplaysMissed(s, userId) ==
    /\ sock' = [sock EXCEPT ![s] = [st |-> "Bound", userId |-> userId]]
    /\ rooms' = [rooms EXCEPT ![s] = {userId}]
    /\ onlineUsers' = onlineUsers \cup {userId}
    /\ emitted' =
         {[name |-> "userOnline", to |-> Connected \cup {s}, userId |-> userId],
          [name |-> "onlineUsers", to |-> {s}, users |-> onlineUsers \cup {userId}]}
         \cup {[e EXCEPT !.to = {s}] :
                 e \in {f \in emitted : /\ f.name \in {"receiveFile", "messageSeen"}
                                        /\ userId = IF f.name = "receiveFile"
                                                       THEN f.room
                                                       ELSE f.senderId}}

\* io.on('connection') with a token that jwt.verify accepts, lines 81-94.
Bind(s, userId) ==
    /\ sock' = [sock EXCEPT ![s] = [st |-> "Bound", userId |-> userId]]
    /\ rooms' = [rooms EXCEPT ![s] = {userId}]
    /\ onlineUsers' = onlineUsers \cup {userId}
    /\ emitted' =
         {[name |-> "userOnline", to |-> Connected \cup {s}, userId |-> userId],
          [name |-> "onlineUsers", to |-> {s}, users |-> onlineUsers \cup {userId}]}

\* Reject without socket.disconnect() and without the return: the socket
\* stays connected and gets its listeners.
RejectStaysConnected(s) ==
    /\ sock' = [sock EXCEPT ![s] = [st |-> "Bound", userId |-> Absent]]
    /\ emitted' = {}
    /\ UNCHANGED <<rooms, onlineUsers>>

\* io.on('connection') with a token that jwt.verify rejects, lines 95-99:
\* the handler returns before any listener is registered.
Reject(s) ==
    /\ sock' = [sock EXCEPT ![s] = [st |-> "Rejected", userId |-> Absent]]
    /\ emitted' = {}
    /\ UNCHANGED <<rooms, onlineUsers>>

\* A new connection whose token names user claimed and verifies iff valid.
Connection(claimed, valid) ==
    /\ NextSocket # 0
    /\ IF valid THEN Bind(NextSocket, claimed) ELSE Reject(NextSocket)
    /\ last' = [op |-> IF valid THEN "connection" ELSE "connection.reject",
                sock |-> NextSocket]
    /\ UNCHANGED <<tasks, store, clock, seenOps, saved>>

\* The disconnect handler without onlineUsers.delete.
DisconnectKeepsPresence(s) ==
    /\ sock[s].st = "Bound"
    /\ sock' = [sock EXCEPT ![s].st = "Disconnected"]
    /\ rooms' = [rooms EXCEPT ![s] = {}]
    /\ IF sock[s].userId # Absent
         THEN emitted' = {[name |-> "userOffline", to |-> Connected \ {s},
                           userId |-> sock[s].userId]}
         ELSE emitted' = {}
    /\ last' = [op |-> "disconnect", sock |-> s]
    /\ UNCHANGED <<onlineUsers, tasks, store, clock, seenOps, saved>>

\* socket.on('disconnect'), lines 168-174.
Disconnect(s) ==
    /\ sock[s].st = "Bound"
    /\ sock' = [sock EXCEPT ![s].st = "Disconnected"]
    /\ rooms' = [rooms EXCEPT ![s] = {}]
    /\ IF sock[s].userId # Absent
         THEN /\ onlineUsers' = onlineUsers \ {sock[s].userId}
              /\ emitted' = {[name |-> "userOffline", to |-> Connected \ {s},
                              userId |-> sock[s].userId]}
         ELSE /\ UNCHANGED onlineUsers
              /\ emitted' = {}
    /\ last' = [op |-> "disconnect", sock |-> s]
    /\ UNCHANGED <<tasks, store, clock, seenOps, saved>>

\* ------------------------------------------------- typing / stopTyping

\* The handlers with socket.broadcast.emit in place of socket.to(receiverId):
\* the event reaches every connected socket except the emitting one.
TypingToAll(s, name, receiverId) ==
    /\ sock[s].st = "Bound"
    /\ emitted' = {[name |-> name, to |-> Connected \ {s},
                    senderId |-> sock[s].userId, receiverId |-> receiverId]}
    /\ last' = [op |-> name, sock |-> s, receiverId |-> receiverId]
    /\ UNCHANGED <<onlineUsers, sock, rooms, tasks, store, clock, seenOps,
                   saved>>

\* socket.on('typing') and socket.on('stopTyping'), lines 101-107:
\* socket.to(room) reaches the room's sockets except the emitting one.
Typing(s, name, receiverId) ==
    /\ sock[s].st = "Bound"
    /\ emitted' = {[name |-> name, to |-> Room(receiverId) \ {s},
                    senderId |-> sock[s].userId, receiverId |-> receiverId]}
    /\ last' = [op |-> name, sock |-> s, receiverId |-> receiverId]
    /\ UNCHANGED <<onlineUsers, sock, rooms, tasks, store, clock, seenOps,
                   saved>>

\* ------------------------------------------------------------ sendFile

\* The store after save() of a document built by new ChatSession (line 125):
\* an insert.
InsertSession(participants, msg) ==
    Append(store, [participants |-> participants,
                   messages |-> <<StoredMessage(msg)>>, v |-> 0])

\* The store after save() of a found document whose only change is
\* messages.push (lines 137-138): the pushed element is appended to the
\* stored array and the document version is incremented.
PushMessage(doc, msg) ==
    [store EXCEPT ![doc].messages = Append(@, StoredMessage(msg)),
                  ![doc].v = @ + 1]

\* The required fields a payload lacks.
AbsentFields(receiverId, present) ==
    (IF receiverId = Absent THEN {"receiverId"} ELSE {}) \cup (FileFields \ present)

\* The negation of the condition of line 116.
ValidSkipsFileType(receiverId, present) ==
    receiverId # Absent /\ {"fileData", "fileName"} \subseteq present

Valid(receiverId, present) ==
    receiverId # Absent /\ present = FileFields

\* socket.on('sendFile') up to the first await, lines 109-123.  present is
\* the set of file fields the payload carries.
SendFile(s, receiverId, present) ==
    /\ sock[s].st = "Bound"
    /\ emitted' = {}
    /\ last' = [op |-> "sendFile", sock |-> s,
                absent |-> AbsentFields(receiverId, present),
                threw |-> "fileData" \notin present]
    /\ IF "fileData" \notin present
         THEN \* line 114 reads fileData.length: TypeError outside the try
              UNCHANGED tasks
         ELSE IF ~Valid(receiverId, present)
         THEN \* lines 116-119
              UNCHANGED tasks
         ELSE /\ FreeSlot # 0
              /\ OpsStarted < MaxOps
              /\ tasks' = [tasks EXCEPT ![FreeSlot] =
                             [IdleTask EXCEPT !.kind = "sendFile",
                                              !.userId = sock[s].userId,
                                              !.peer = receiverId,
                                              !.pc = "find"]]
    /\ UNCHANGED <<onlineUsers, sock, rooms, store, clock, seenOps, saved>>

\* The await of findOne ends, lines 123-138: on success the handler builds
\* newMessage, pushes it and calls save; on rejection it runs the catch.
SendFileFind(t, ok) ==
    /\ tasks[t].kind = "sendFile" /\ tasks[t].pc = "find"
    /\ emitted' = {}
    /\ IF ok
         THEN /\ clock' = clock + 1
              /\ tasks' = [tasks EXCEPT ![t].pc = "save",
                             ![t].doc = FindOne(SortPair(tasks[t].userId, tasks[t].peer)),
                             ![t].msg = NewMessage(tasks[t].userId, tasks[t].peer,
                                                   clock + 1)]
              /\ last' = [op |-> "sendFile.find", sock |-> 0]
         ELSE /\ tasks' = [tasks EXCEPT ![t] = IdleTask]
              /\ last' = [op |-> "sendFile.catch", sock |-> 0, ts |-> 0]
              /\ UNCHANGED clock
    /\ UNCHANGED <<onlineUsers, sock, rooms, store, seenOps, saved>>

\* SendFileSave with save() not awaited: the handler goes on to its emits
\* whether or not the write succeeds.
SendFileSaveNotAwaited(t, ok) ==
    /\ tasks[t].kind = "sendFile" /\ tasks[t].pc = "save"
    /\ emitted' = {}
    /\ tasks' = [tasks EXCEPT ![t].pc = "emit"]
    /\ last' = [op |-> "sendFile.save", sock |-> 0]
    /\ IF ok
         THEN /\ store' = IF tasks[t].doc = 0
                            THEN InsertSession(SortPair(tasks[t].userId, tasks[t].peer),
                                               tasks[t].msg)
                            ELSE PushMessage(tasks[t].doc, tasks[t].msg)
              /\ saved' = saved \cup {tasks[t].msg.timestamp}
         ELSE UNCHANGED <<store, saved>>
    /\ UNCHANGED <<onlineUsers, sock, rooms, clock, seenOps>>

\* The await of save ends, line 138.
SendFileSave(t, ok) ==
    /\ tasks[t].kind = "sendFile" /\ tasks[t].pc = "save"
    /\ emitted' = {}
    /\ IF ok
         THEN /\ store' = IF tasks[t].doc = 0
                            THEN InsertSession(SortPair(tasks[t].userId, tasks[t].peer),
                                               tasks[t].msg)
                            ELSE PushMessage(tasks[t].doc, tasks[t].msg)
              /\ saved' = saved \cup {tasks[t].msg.timestamp}
              /\ tasks' = [tasks EXCEPT ![t].pc = "emit"]
              /\ last' = [op |-> "sendFile.save", sock |-> 0]
         ELSE /\ tasks' = [tasks EXCEPT ![t] = IdleTask]
              /\ last' = [op |-> "sendFile.catch", sock |-> 0,
                          ts |-> tasks[t].msg.timestamp]
              /\ UNCHANGED <<store, saved>>
    /\ UNCHANGED <<onlineUsers, sock, rooms, clock, seenOps>>

\* The emit to the receiver's room alone, without the one of line 142.
ReceiveFileToReceiverOnly(t) ==
    {[name |-> "receiveFile", seq |-> 1, room |-> tasks[t].peer,
      to |-> Room(tasks[t].peer), msg |-> tasks[t].msg]}

\* The two emits of lines 141-142.
ReceiveFileEvents(t) ==
    {[name |-> "receiveFile", seq |-> 1, room |-> tasks[t].peer,
      to |-> Room(tasks[t].peer), msg |-> tasks[t].msg],
     [name |-> "receiveFile", seq |-> 2, room |-> tasks[t].userId,
      to |-> Room(tasks[t].userId), msg |-> tasks[t].msg]}

\* The continuation after save, lines 140-142.
SendFileEmit(t) ==
    /\ tasks[t].kind = "sendFile" /\ tasks[t].pc = "emit"
    /\ emitted' = ReceiveFileEvents(t)
    /\ tasks' = [tasks EXCEPT ![t] = IdleTask]
    /\ last' = [op |-> "sendFile.emit", sock |-> 0]
    /\ UNCHANGED <<onlineUsers, sock, rooms, store, clock, seenOps, saved>>

\* ---------------------------------------------------------- markAsSeen

\* The store after save() of a found document whose messages array was
\* replaced (lines 154-160): the array is overwritten and the version
\* incremented, provided the stored version is still the one read.
ReplaceMessages(doc, messages) ==
    [store EXCEPT ![doc].messages = messages, ![doc].v = @ + 1]

\* socket.on('markAsSeen') up to the await of findOne, lines 148-152.
MarkAsSeen(s, senderId) ==
    /\ sock[s].st = "Bound"
    /\ FreeSlot # 0
    /\ OpsStarted < MaxOps
    /\ seenOps' = seenOps + 1
    /\ tasks' = [tasks EXCEPT ![FreeSlot] =
                   [IdleTask EXCEPT !.kind = "markAsSeen",
                                    !.userId = sock[s].userId,
                                    !.peer = senderId, !.pc = "find"]]
    /\ emitted' = {}
    /\ last' = [op |-> "markAsSeen", sock |-> s, senderId |-> senderId]
    /\ UNCHANGED <<onlineUsers, sock, rooms, store, clock, saved>>

\* The lookup as sendFile does it: when no document is found a new, empty
\* ChatSession of the pair is created and saved.
MarkAsSeenFindOrCreate(t, ok) ==
    /\ tasks[t].kind = "markAsSeen" /\ tasks[t].pc = "find"
    /\ emitted' = {}
    /\ LET doc == FindOne(SortPair(tasks[t].peer, tasks[t].userId))
       IN  IF ok /\ doc # 0
             THEN /\ tasks' = [tasks EXCEPT ![t].pc = "save", ![t].doc = doc,
                                 ![t].v = store[doc].v,
                                 ![t].messages = MarkAll(store[doc].messages,
                                                         tasks[t].peer)]
                  /\ last' = [op |-> "markAsSeen.find", sock |-> 0]
                  /\ UNCHANGED store
             ELSE /\ tasks' = [tasks EXCEPT ![t] = IdleTask]
                  /\ last' = [op |-> IF ok THEN "markAsSeen.noSession"
                                           ELSE "markAsSeen.catch",
                              sock |-> 0]
                  /\ store' = IF ok
                                THEN Append(store,
                                       [participants |->
                                            SortPair(tasks[t].peer, tasks[t].userId),
                                        messages |-> <<>>, v |-> 0])
                                ELSE store
    /\ UNCHANGED <<onlineUsers, sock, rooms, clock, seenOps, saved>>

\* The await of findOne ends, lines 152-160.
MarkAsSeenFind(t, ok) ==
    /\ tasks[t].kind = "markAsSeen" /\ tasks[t].pc = "find"
    /\ emitted' = {}
    /\ LET doc == FindOne(SortPair(tasks[t].peer, tasks[t].userId))
       IN  IF ok /\ doc # 0
             THEN /\ tasks' = [tasks EXCEPT ![t].pc = "save", ![t].doc = doc,
                                 ![t].v = store[doc].v,
                                 ![t].messages = MarkAll(store[doc].messages,
                                                         tasks[t].peer)]
                  /\ last' = [op |-> "markAsSeen.find", sock |-> 0]
             ELSE /\ tasks' = [tasks EXCEPT ![t] = IdleTask]
                  /\ last' = [op |-> IF ok THEN "markAsSeen.noSession"
                                           ELSE "markAsSeen.catch",
                              sock |-> 0]
    /\ UNCHANGED <<onlineUsers, sock, rooms, store, clock, seenOps, saved>>

\* MarkAsSeenSave without the version condition: the save overwrites the
\* stored array with the handler's copy whatever was written since the read.
MarkAsSeenSaveUnversioned(t, ok) ==
    /\ tasks[t].kind = "markAsSeen" /\ tasks[t].pc = "save"
    /\ emitted' = {}
    /\ IF ok
         THEN /\ store' = ReplaceMessages(tasks[t].doc, tasks[t].messages)
              /\ tasks' = [tasks EXCEPT ![t].pc = "emit"]
              /\ last' = [op |-> "markAsSeen.save", sock |-> 0]
         ELSE /\ tasks' = [tasks EXCEPT ![t] = IdleTask]
              /\ last' = [op |-> "markAsSeen.catch", sock |-> 0]
              /\ UNCHANGED store
    /\ UNCHANGED <<onlineUsers, sock, rooms, clock, seenOps, saved>>

\* The await of save ends, line 160.  A stored version other than the one
\* read rejects the save like any other persistence failure.
MarkAsSeenSave(t, ok) ==
    /\ tasks[t].kind = "markAsSeen" /\ tasks[t].pc = "save"
    /\ emitted' = {}
    /\ IF ok /\ store[tasks[t].doc].v = tasks[t].v
         THEN /\ store' = ReplaceMessages(tasks[t].doc, tasks[t].messages)
              /\ tasks' = [tasks EXCEPT ![t].pc = "emit"]
              /\ last' = [op |-> "markAsSeen.save", sock |-> 0]
         ELSE /\ tasks' = [tasks EXCEPT ![t] = IdleTask]
              /\ last' = [op |-> "markAsSeen.catch", sock |-> 0]
              /\ UNCHANGED store
    /\ UNCHANGED <<onlineUsers, sock, rooms, clock, seenOps, saved>>

\* The emit addressed to the room of the handler's own user instead of the
\* sender's.
MarkAsSeenEmitToReceiver(t) ==
    /\ tasks[t].kind = "markAsSeen" /\ tasks[t].pc = "emit"
    /\ emitted' = {[name |-> "messageSeen", to |-> Room(tasks[t].userId),
                    senderId |-> tasks[t].peer, receiverId |-> tasks[t].userId]}
    /\ tasks' = [tasks EXCEPT ![t] = IdleTask]
    /\ last' = [op |-> "markAsSeen.emit", sock |-> 0]
    /\ UNCHANGED <<onlineUsers, sock, rooms, store, clock, seenOps, saved>>

\* The continuation after save, line 161.
MarkAsSeenEmit(t) ==
    /\ tasks[t].kind = "markAsSeen" /\ tasks[t].pc = "emit"
    /\ emitted' = {[name |-> "messageSeen", to |-> Room(tasks[t].peer),
                    senderId |-> tasks[t].peer, receiverId |-> tasks[t].userId]}
    /\ tasks' = [tasks EXCEPT ![t] = IdleTask]
    /\ last' = [op |-> "markAsSeen.emit", sock |-> 0]
    /\ UNCHANGED <<onlineUsers, sock, rooms, store, clock, seenOps, saved>>

\* ---------------------------------------------------------------- Next

Next ==
    \/ \E u \in Users, valid \in BOOLEAN : Connection(u, valid)
    \/ \E s \in Sockets : Disconnect(s)
    \/ \E s \in Sockets, r \in Users : Typing(s, "typing", r)
    \/ \E s \in Sockets, r \in Users : Typing(s, "stopTyping", r)
    \/ \E s \in Sockets, p \in PayloadsTo(Users) : SendFile(s, p[1], p[2])
    \/ \E t \in TaskIds, ok \in BOOLEAN : SendFileFind(t, ok)
    \/ \E t \in TaskIds, ok \in BOOLEAN : SendFileSave(t, ok)
    \/ \E t \in TaskIds : SendFileEmit(t)
    \/ \E s \in Sockets, u \in Users : MarkAsSeen(s, u)
    \/ \E t \in TaskIds, ok \in BOOLEAN : MarkAsSeenFind(t, ok)
    \/ \E t \in TaskIds, ok \in BOOLEAN : MarkAsSeenSave(t, ok)
    \/ \E t \in TaskIds : MarkAsSeenEmit(t)

Spec == Init /\ [][Next]_vars

\* The connection lifecycle alone: connections, disconnects and the
\* synchronous typing handlers.  The async handlers write none of
\* onlineUsers, sock and rooms.
NextPresence ==
    \/ \E u \in Users, valid \in BOOLEAN : Connection(u, valid)
    \/ \E s \in Sockets : Disconnect(s)
    \/ \E s \in Sockets, r \in Users : Typing(s, "typing", r)
    \/ \E s \in Sockets, r \in Users : Typing(s, "stopTyping", r)

SpecPresence == Init /\ [][NextPresence]_vars

\* The two users whose conversations the store specification follows.
Pair == {1, 2}

\* The state after socket 1 has connected with a valid token of user 1 and
\* then socket 2 with one of user 2.
InitStore ==
    /\ onlineUsers = Pair
    /\ sock = [s \in Sockets |-> IF s \in Pair
                                   THEN [st |-> "Bound", userId |-> s]
                                   ELSE [st |-> "Connecting", userId |-> Absent]]
    /\ rooms = [s \in Sockets |-> IF s \in Pair THEN {s} ELSE {}]
    /\ tasks = [t \in TaskIds |-> IdleTask]
    /\ store = <<>>
    /\ clock = 0
    /\ seenOps = 0
    /\ saved = {}
    /\ emitted = {[name |-> "userOnline", to |-> Pair, userId |-> 2],
                  [name |-> "onlineUsers", to |-> {2}, users |-> Pair]}
    /\ last = [op |-> "connection", sock |-> 2]

\* The sendFile and markAsSeen handlers of the two connected users, addressed
\* to each other or to themselves.
NextStore ==
    \/ \E s \in Sockets, p \in PayloadsTo(Pair) : SendFile(s, p[1], p[2])
    \/ \E t \in TaskIds, ok \in BOOLEAN : SendFileFind(t, ok)
    \/ \E t \in TaskIds, ok \in BOOLEAN : SendFileSave(t, ok)
    \/ \E t \in TaskIds : SendFileEmit(t)
    \/ \E s \in Sockets, u \in Pair : MarkAsSeen(s, u)
    \/ \E t \in TaskIds, ok \in BOOLEAN : MarkAsSeenFind(t, ok)
    \/ \E t \in TaskIds, ok \in BOOLEAN : MarkAsSeenSave(t, ok)
    \/ \E t \in TaskIds : MarkAsSeenEmit(t)

SpecStore == InitStore /\ [][NextStore]_vars

\* The conversation of users 1 and 2 as an earlier run of the server left it
\* in the database: one message in each direction, neither seen, written
\* before this run's clock started.
SeededMessages ==
    <<StoredMessage(NewMessage(1, 2, -2)), StoredMessage(NewMessage(2, 1, -1))>>

\* The server has started over that database, and users 1 and 2 have
\* connected as in InitStore.
InitSeeded ==
    /\ onlineUsers = Pair
    /\ sock = [s \in Sockets |-> IF s \in Pair
                                   THEN [st |-> "Bound", userId |-> s]
                                   ELSE [st |-> "Connecting", userId |-> Absent]]
    /\ rooms = [s \in Sockets |-> IF s \in Pair THEN {s} ELSE {}]
    /\ tasks = [t \in TaskIds |-> IdleTask]
    /\ store = <<[participants |-> <<1, 2>>, messages |-> SeededMessages,
                  v |-> 1]>>
    /\ clock = 0
    /\ seenOps = 0
    /\ saved = {-2, -1}
    /\ emitted = {[name |-> "userOnline", to |-> Pair, userId |-> 2],
                  [name |-> "onlineUsers", to |-> {2}, users |-> Pair]}
    /\ last = [op |-> "connection", sock |-> 2]

\* The handlers of NextStore over the seeded database.
SpecSeeded == InitSeeded /\ [][NextStore]_vars

\* No async handler is between two awaits.
Quiet == \A t \in TaskIds : tasks[t] = IdleTask

\* Connections coming and going around the async handlers: further
\* connections of any user and disconnects of any socket at every step of a
\* sendFile or markAsSeen handler.  The handlers carry complete payloads and
\* run one after the other.
NextDelivery ==
    \/ \E u \in Users : Connection(u, TRUE)
    \/ \E s \in Sockets : Disconnect(s)
    \/ \E s \in Sockets, r \in Users :
           Quiet /\ OpsStarted < MaxDeliveryOps /\ SendFile(s, r, FileFields)
    \/ \E t \in TaskIds, ok \in BOOLEAN : SendFileFind(t, ok)
    \/ \E t \in TaskIds, ok \in BOOLEAN : SendFileSave(t, ok)
    \/ \E t \in TaskIds : SendFileEmit(t)
    \/ \E s \in Sockets, u \in Users :
           Quiet /\ OpsStarted < MaxDeliveryOps /\ MarkAsSeen(s, u)
    \/ \E t \in TaskIds, ok \in BOOLEAN : MarkAsSeenFind(t, ok)
    \/ \E t \in TaskIds, ok \in BOOLEAN : MarkAsSeenSave(t, ok)
    \/ \E t \in TaskIds : MarkAsSeenEmit(t)

SpecDelivery == InitSeeded /\ [][NextDelivery]_vars

\* =============================================================== claims

\* The onlineUsers snapshots among the events of the last step.
Snapshots == {e \in emitted : e.name = "onlineUsers"}

\* The user bound by the last step, when that step was a successful
\* connection.
BoundUser == sock[last.sock].userId

\* --------------------------------------------------------------------- C1
\* C1: in every reachable state a user identity is in the online-users set
\* if and only if that user has at least one live bound connection.
C1_PresentIffLiveConnection ==
    \A u \in Users : (u \in onlineUsers) <=> (LiveConnections(u) # {})

\* --------------------------------------------------------------------- C2
\* C2: a userOnline event for user U is broadcast only by a bind that moves U
\* from zero live connections to one: after the bind, the new connection is
\* the only live connection of U.
C2_UserOnlineOnlyOnFirstBind ==
    last.op = "connection" =>
        \A e \in emitted :
            e.name = "userOnline" => LiveConnections(e.userId) = {last.sock}

\* --------------------------------------------------------------------- C3
\* C3: a userOffline event for user U is broadcast only when the connection
\* being unbound was the last live connection of U: when U still has a live
\* connection after the disconnect, no userOffline for U was emitted and U
\* is still in the online-users set.
C3_UserOfflineOnlyOnLastUnbind ==
    (last.op = "disconnect" /\ LiveConnections(sock[last.sock].userId) # {}) =>
        /\ sock[last.sock].userId \in onlineUsers
        /\ \A e \in emitted :
              ~(e.name = "userOffline" /\ e.userId = sock[last.sock].userId)

\* --------------------------------------------------------------------- C4
\* C4: the onlineUsers snapshot sent to a newly bound connection of U2
\* contains a distinct user U1 if and only if U1 has a live bound connection
\* at the moment U2's connection is bound.
C4_SnapshotShowsLiveUsers ==
    last.op = "connection" =>
        \A e \in Snapshots :
            \A u1 \in Users \ {BoundUser} :
                (u1 \in e.users) <=> (LiveConnections(u1) # {})

\* --------------------------------------------------------------------- C5
\* No user other than the one just bound has a live connection.
NoOtherUserLive == \A u \in Users \ {BoundUser} : LiveConnections(u) = {}

\* C5 as stated: a user who connects with a valid token while no other user
\* is online receives a snapshot with an empty users list.
C5_SnapshotEmptyWhenAlone ==
    (last.op = "connection" /\ NoOtherUserLive) =>
        \A e \in Snapshots : e.users = {}

\* C5 amended: a user who connects with a valid token while no other user is
\* online receives exactly one snapshot, whose users list holds the
\* connecting user alone.
C5_SnapshotHoldsSelfWhenAlone ==
    (last.op = "connection" /\ NoOtherUserLive) =>
        /\ Cardinality(Snapshots) = 1
        /\ \A e \in Snapshots : e.users = {BoundUser} /\ e.to = {last.sock}

\* A second connection of the same user is bound after its first one has
\* disconnected, with no other user connected.
C5_Witness ==
    /\ last.op = "connection"
    /\ NoOtherUserLive
    /\ \E s \in Sockets : sock[s].st = "Disconnected"
    /\ Snapshots # {}

\* --------------------------------------------------------------------- C6
\* What holds of a state with a rejected connection.
C6_State ==
    /\ \A s \in Sockets :
          sock[s].st = "Rejected" =>
              /\ sock[s].userId = Absent
              /\ rooms[s] = {}
              /\ \A e \in emitted : s \notin e.to
    /\ last.op = "connection.reject" =>
          sock[last.sock].st = "Rejected" /\ emitted = {}
    /\ last.op \in {"typing", "stopTyping", "disconnect", "sendFile", "markAsSeen"} =>
          sock[last.sock].st # "Rejected"

\* What holds of a step that rejects a connection, and of any step taken
\* while a connection is rejected.
C6_Step ==
    /\ (last'.op = "connection.reject" /\ last' # last) =>
          /\ onlineUsers' = onlineUsers
          /\ rooms' = rooms
          /\ store' = store
          /\ tasks' = tasks
          /\ \A s \in Sockets \ {last'.sock} : sock'[s] = sock[s]
    /\ \A s \in Sockets : sock[s].st = "Rejected" => sock'[s] = sock[s]

\* C6: a connection whose token fails verification changes no state and
\* emits no event: the online-users set, the rooms, the other connections
\* and the store are unchanged, nothing is emitted at the rejection, the
\* connection has no identity and is in no room, it receives no event and
\* issues none, and it stays Rejected.
C6_RejectedConnectionHasNoEffect == []C6_State /\ [][C6_Step]_vars

\* A connection has been rejected while another user is online, and a later
\* step has emitted an event.
C6_Witness ==
    /\ \E s \in Sockets : sock[s].st = "Rejected"
    /\ onlineUsers # {}
    /\ last.op \in {"connection", "typing", "disconnect"}
    /\ emitted # {}

\* --------------------------------------------------------------------- C7
\* The timestamps of the messages stored in document d.
StoredIn(d) == {store[d].messages[i].timestamp : i \in 1..Len(store[d].messages)}

\* A step that runs the sendFile handler on a payload lacking a required
\* field leaves the store as it was, leaves no handler in flight and emits
\* no receiveFile.
C7_Step ==
    (last'.op = "sendFile" /\ last'.absent # {}) =>
        /\ store' = store
        /\ tasks' = tasks
        /\ \A e \in emitted' : e.name # "receiveFile"

\* C7: a sendFile event in which any of receiverId, fileData, fileName or
\* fileType is absent appends no message to any conversation, creates no
\* conversation and emits no receiveFile event.
C7_IncompleteSendFileDropped == [][C7_Step]_vars

\* A payload without fileType has been dropped while a conversation exists
\* and another sendFile is in flight.
C7_Witness ==
    /\ last.op = "sendFile"
    /\ last.absent = {"fileType"}
    /\ Len(store) > 0
    /\ \E t \in TaskIds : tasks[t].kind = "sendFile"

\* --------------------------------------------------------------------- C8
\* C8: a receiveFile event for a message is emitted only after the save
\* containing the message has succeeded, and the message is then stored;
\* when the lookup or the save fails, the handler emits nothing and the
\* message is not among the saved ones, so no receiveFile is emitted for it.
C8_ReceiveFileOnlyAfterSave ==
    /\ \A e \in emitted :
          e.name = "receiveFile" =>
              /\ e.msg.timestamp \in saved
              /\ \E d \in 1..Len(store) : e.msg.timestamp \in StoredIn(d)
    /\ \A t \in TaskIds :
          (tasks[t].kind = "sendFile" /\ tasks[t].pc = "emit") =>
              tasks[t].msg.timestamp \in saved
    /\ last.op = "sendFile.catch" =>
          emitted = {} /\ last.ts \notin saved

\* Two messages were built; the save of one failed and the other has just
\* been delivered to a connection.
C8_Witness ==
    /\ clock = 2
    /\ Cardinality(saved) = 1
    /\ \A t \in TaskIds : tasks[t].kind = "idle"
    /\ \E e \in emitted : e.name = "receiveFile" /\ e.to # {}

\* --------------------------------------------------------------------- C9
\* C9: every message whose save succeeded is in the message sequence of the
\* conversation of its participant pair (the one a lookup by that pair
\* returns), in every later state.
C9_SavedMessagesStayInConversation ==
    \A ts \in saved :
        \E d \in 1..Len(store) :
            ts \in StoredIn(d) /\ d = FindOne(store[d].participants)

\* -------------------------------------------------------------------- C10
\* C10: the store never contains two conversations for the same participant
\* pair.
C10_OneConversationPerPair ==
    \A i, j \in 1..Len(store) :
        store[i].participants = store[j].participants => i = j

\* -------------------------------------------------------------------- C11
\* C11: under any interleaving of sendFile and markAsSeen handlers, a step
\* leaves every stored message in its conversation at its position with its
\* sender, receiver, timestamp and payload as they were, and a seen flag
\* that was true is still true: the flag only ever goes from false to true.
C11_Step ==
    \A d \in 1..Len(store) :
        /\ d <= Len(store')
        /\ \A i \in 1..Len(store[d].messages) :
              /\ i <= Len(store'[d].messages)
              /\ [store'[d].messages[i] EXCEPT !.seen = store[d].messages[i].seen]
                     = store[d].messages[i]
              /\ store[d].messages[i].seen => store'[d].messages[i].seen

C11_SeenOnlyRisesMessagesImmutable == [][C11_Step]_vars

\* A markAsSeen and a sendFile have both written the seeded conversation:
\* its first message is seen and a third message has been appended.
C11_Witness ==
    /\ Len(store) >= 1
    /\ Len(store[1].messages) = 3
    /\ store[1].messages[1].seen
    /\ ~store[1].messages[2].seen

\* -------------------------------------------------------------------- C12
\* C12: the save of a markAsSeen {senderId} issued by receiver R sets seen
\* to true on exactly the messages of the conversation of {senderId, R}
\* that senderId authored and that were unseen; every other message of that
\* conversation and every other conversation are left as they were.  After
\* it every message of senderId there is seen, so that the same markAsSeen
\* issued again stores the same messages as issuing it once.
C12_Step ==
    \A t \in TaskIds :
        (tasks[t].kind = "markAsSeen" /\ tasks[t].pc = "save"
             /\ tasks'[t].pc = "emit") =>
            LET d == FindOne(SortPair(tasks[t].peer, tasks[t].userId))
                before == store[d].messages
                after == store'[d].messages
            IN  /\ d # 0
                /\ Len(store') = Len(store)
                /\ \A e \in 1..Len(store) : e # d => store'[e] = store[e]
                /\ Len(after) = Len(before)
                /\ \A i \in 1..Len(before) :
                      IF before[i].senderId = tasks[t].peer /\ ~before[i].seen
                          THEN after[i] = [before[i] EXCEPT !.seen = TRUE]
                          ELSE after[i] = before[i]
                /\ \A i \in 1..Len(after) :
                      after[i].senderId = tasks[t].peer => after[i].seen

C12_MarkAsSeenMarksExactlySendersUnseen == [][C12_Step]_vars

\* User 2 has issued markAsSeen for sender 1 twice in a row and both saves
\* have succeeded: the message of user 1 is seen, the one user 2 authored
\* is not.
C12_Witness ==
    /\ last.op = "markAsSeen.save"
    /\ seenOps = 2
    /\ clock = 0
    /\ store[1].v = 3
    /\ store[1].messages[1].seen
    /\ ~store[1].messages[2].seen

\* -------------------------------------------------------------------- C13
\* C13: when a sendFile from A to B has been saved and its events are
\* emitted, the receiveFile event of the saved message is delivered to every
\* connection bound to B at that moment and to every connection bound to A
\* at that moment, A's other devices included, and to no connection bound
\* to any other identity.
C13_ReceiveFileToBothUsersOnly ==
    last.op = "sendFile.emit" =>
        \E e \in emitted :
            /\ \A f \in emitted : f.name = "receiveFile" /\ f.msg = e.msg
            /\ e.msg.timestamp \in saved
            /\ \A s \in Sockets :
                  (\E f \in emitted : s \in f.to)
                      <=> /\ sock[s].st = "Bound"
                          /\ sock[s].userId \in {e.msg.senderId, e.msg.receiverId}

\* A file of user 1 to user 3 has been delivered to the connection user 3
\* opened while the handler was running and to user 1, while user 2, a
\* third identity, is connected.
C13_Witness ==
    /\ last.op = "sendFile.emit"
    /\ \E e \in emitted : e.msg.senderId = 1 /\ e.msg.receiverId = 3
    /\ \A s \in Sockets : sock[s] = [st |-> "Bound", userId |-> s]

\* -------------------------------------------------------------------- C14
\* C14: a messageSeen event goes only to the connections bound to its
\* senderId.  It is emitted only by a markAsSeen handler whose save has
\* succeeded, with the senderId that handler was given and with receiverId
\* the identity bound to the connection that issued the markAsSeen.  A
\* markAsSeen handler whose lookup or save fails emits nothing and writes
\* nothing.
C14_State ==
    \A e \in emitted :
        e.name = "messageSeen" => e.to = LiveConnections(e.senderId)

C14_Step ==
    \* the handler is given the issuing connection's identity
    /\ last'.op = "markAsSeen" =>
           \E t \in TaskIds :
               /\ tasks[t] = IdleTask
               /\ tasks'[t].kind = "markAsSeen"
               /\ tasks'[t].userId = sock[last'.sock].userId
               /\ tasks'[t].peer = last'.senderId
    \* a messageSeen comes from a handler past its save and names its pair
    /\ \A e \in emitted' :
           e.name = "messageSeen" =>
               \E t \in TaskIds :
                   /\ tasks[t].kind = "markAsSeen"
                   /\ tasks[t].pc = "emit"
                   /\ tasks'[t] = IdleTask
                   /\ e.senderId = tasks[t].peer
                   /\ e.receiverId = tasks[t].userId
    /\ \A t \in TaskIds :
        tasks[t].kind = "markAsSeen" =>
            \* a handler gets past its save only by the save taking effect
            /\ (tasks[t].pc # "emit" /\ tasks'[t].pc = "emit") =>
                   /\ tasks[t].pc = "save"
                   /\ store'[tasks[t].doc].messages = tasks[t].messages
                   /\ store'[tasks[t].doc].v = store[tasks[t].doc].v + 1
            \* a handler that ends at its lookup or its save has no effect
            /\ (tasks[t].pc \in {"find", "save"} /\ tasks'[t] = IdleTask) =>
                   emitted' = {} /\ store' = store

C14_MessageSeenOnlyToSenderAfterSave == []C14_State /\ [][C14_Step]_vars

\* User 2 has marked the messages of user 1 as seen; the messageSeen event
\* went to both connections of user 1, the second opened meanwhile.
C14_Witness ==
    /\ last.op = "markAsSeen.emit"
    /\ \E e \in emitted :
          /\ e.name = "messageSeen"
          /\ e.senderId = 1 /\ e.receiverId = 2
          /\ e.to = {1, 3}
    /\ store[1].messages[1].seen

\* -------------------------------------------------------------------- C15
\* C15: a markAsSeen for a pair that has no stored conversation is a no-op:
\* neither its first step nor the step that ends its lookup creates a
\* conversation, changes a stored message or emits an event, and the handler
\* ends at the lookup.
C15_Step ==
    /\ last'.op = "markAsSeen" => store' = store /\ emitted' = {}
    /\ \A t \in TaskIds :
          (/\ tasks[t].kind = "markAsSeen"
           /\ tasks[t].pc = "find"
           /\ tasks'[t] # tasks[t]
           /\ FindOne(SortPair(tasks[t].peer, tasks[t].userId)) = 0) =>
              /\ store' = store
              /\ emitted' = {}
              /\ tasks'[t] = IdleTask

C15_MarkAsSeenWithoutConversationIsNoOp == [][C15_Step]_vars

\* A markAsSeen found no conversation of its pair while a conversation of
\* another pair is stored.
C15_Witness ==
    /\ last.op = "markAsSeen.noSession"
    /\ store # <<>>
    /\ emitted = {}

\* -------------------------------------------------------------------- C16
\* C16: the key of a conversation does not depend on the order of its two
\* participants: for users a and b the lookup by the key computed for
\* (a, b) finds the same document as the lookup by the key for (b, a);
\* every stored message, whichever of the two sent it, lies in a document
\* whose key is the ascending pair of its sender and receiver; and a
\* sendFile or markAsSeen handler that found a document found one of its
\* own pair.
C16_ConversationKeyIgnoresOrder ==
    /\ \A a, b \in Users : FindOne(SortPair(a, b)) = FindOne(SortPair(b, a))
    /\ \A d \in 1..Len(store) :
          /\ store[d].participants[1] <= store[d].participants[2]
          /\ \A i \in 1..Len(store[d].messages) :
                LET m == store[d].messages[i]
                IN  store[d].participants \in {<<m.senderId, m.receiverId>>,
                                               <<m.receiverId, m.senderId>>}
    /\ \A t \in TaskIds :
          (tasks[t].kind # "idle" /\ tasks[t].doc # 0) =>
              store[tasks[t].doc].participants
                  \in {<<tasks[t].userId, tasks[t].peer>>,
                       <<tasks[t].peer, tasks[t].userId>>}

\* User 1 has sent user 2 a file and user 2 has sent user 1 one, and both
\* messages are in one conversation.
C16_Witness ==
    /\ clock = 2
    /\ Len(store) = 1
    /\ \E i, j \in 1..Len(store[1].messages) :
          /\ store[1].messages[i].senderId = 1
          /\ store[1].messages[i].receiverId = 2
          /\ store[1].messages[j].senderId = 2
          /\ store[1].messages[j].receiverId = 1

\* -------------------------------------------------------------------- C17
\* C17: a typing or stopTyping event sent by a connection bound to A with a
\* receiverId B other than A produces one event of the same name that
\* carries senderId A and receiverId B and is delivered to every connection
\* bound to B at that moment and to no other connection: none of A, none of
\* a third identity.
C17_TypingReachesReceiverOnly ==
    (last.op \in {"typing", "stopTyping"} /\ last.receiverId # BoundUser) =>
        /\ emitted # {}
        /\ \A e \in emitted :
              /\ e.name = last.op
              /\ e.senderId = BoundUser
              /\ e.receiverId = last.receiverId
              /\ e.to = LiveConnections(last.receiverId)

\* Three users are connected; one of them has sent typing to another, whose
\* connection got it, and the third user's connection did not.
C17_Witness ==
    /\ last.op = "typing"
    /\ last.receiverId # BoundUser
    /\ Cardinality(onlineUsers) = 3
    /\ Cardinality(Connected) = 3
    /\ \E e \in emitted : Cardinality(e.to) = 1

\* -------------------------------------------------------------------- C18
\* C18: an event addressed to a user is delivered only to the connections
\* that user has at the moment of the emit, so with no connection bound it
\* is delivered to nobody; and nothing is kept for later: the step that
\* binds a connection delivers to it the userOnline and onlineUsers events
\* of that bind and no event emitted earlier.
C18_State ==
    \A e \in emitted :
        /\ e.name = "receiveFile" => e.to \subseteq LiveConnections(e.room)
        /\ e.name = "messageSeen" => e.to \subseteq LiveConnections(e.senderId)
        /\ e.name \in {"typing", "stopTyping"} =>
               e.to \subseteq LiveConnections(e.receiverId)

C18_Step ==
    \A s \in Sockets :
        (sock[s].st # "Bound" /\ sock'[s].st = "Bound") =>
            \A e \in emitted' :
                s \in e.to => e.name \in {"userOnline", "onlineUsers"}

C18_EventsToOfflineUserDropped == []C18_State /\ [][C18_Step]_vars

\* A file sent to user 3 was saved and its events emitted while user 3 had
\* no connection; user 3 has now connected for the first time and got only
\* the events of its own bind.
C18_Witness ==
    /\ last.op = "connection"
    /\ BoundUser = 3
    /\ LiveConnections(3) = {last.sock}
    /\ \A s \in Sockets \ {last.sock} : sock[s].userId # 3
    /\ Quiet
    /\ \E d \in 1..Len(store) : \E i \in 1..Len(store[d].messages) :
          /\ store[d].messages[i].receiverId = 3
          /\ store[d].messages[i].timestamp \in saved

\* -------------------------------------------------------------------- C19
\* C19: a sendFile whose payload lacks a required field, fileData included,
\* is handled as a validation error: the handler ends without raising an
\* unhandled error, the online-users set and the stored conversations are
\* as before, no handler is started, and every connection, the issuing one
\* included, is in the state it was in.
C19_Step ==
    (last'.op = "sendFile" /\ last'.absent # {}) =>
        /\ ~last'.threw
        /\ onlineUsers' = onlineUsers
        /\ store' = store
        /\ tasks' = tasks
        /\ sock' = sock
        /\ rooms' = rooms

C19_MalformedSendFileIsValidationError == [][C19_Step]_vars

\* -------------------------------------------------------------------- C20
\* C20: there is no ghost presence: every identity in the online-users set
\* has at least one live bound connection, and when no connection is live
\* the set is empty.
C20_NoGhostPresence ==
    /\ \A u \in onlineUsers : LiveConnections(u) # {}
    /\ Connected = {} => onlineUsers = {}

\* Every connection the server accepted has been bound and has
\* disconnected again, and the online-users set is empty.
C20_Witness ==
    /\ \A s \in Sockets : sock[s].st = "Disconnected"
    /\ onlineUsers = {}

====
